---- MODULE Spec2Model ----
(***************************************************************************)
(* Turn orchestration and tool dispatch of swarm/core.py: Swarm.run,       *)
(* Swarm.run_and_stream, Swarm.handle_tool_calls and                       *)
(* Swarm.handle_function_result, driven by a backend that may return any   *)
(* message and by a fixed set of caller-supplied agents and tools.         *)
(***************************************************************************)
EXTENDS Integers, Sequences, FiniteSets, TLC

(* ------------------------------ bounds --------------------------------- *)
\* largest max_turns argument tried
MaxTurns == 3
\* most tool calls carried by one backend message
MaxCalls == 2
\* most tool calls the backend issues over one run
MaxToolCalls == 2
\* most seed messages the caller passes
MaxSeed == 1

(* ------------------------- values and helpers -------------------------- *)
\* Python None where an Agent is expected
NoAgent == "None"

\* the empty dict {}
EmptyDict == [k \in {} |-> 0]

\* base.update(delta): every key of delta overrides, the other keys stay
DictUpdateLeftBiased(base, delta) ==
    [k \in DOMAIN base \cup DOMAIN delta |->
        IF k \in DOMAIN base THEN base[k] ELSE delta[k]]

DictUpdate(base, delta) ==
    [k \in DOMAIN base \cup DOMAIN delta |->
        IF k \in DOMAIN delta THEN delta[k] ELSE base[k]]

\* d[k] = v on a dict
DictSet(d, k, v) == [x \in DOMAIN d \cup {k} |-> IF x = k THEN v ELSE d[x]]

\* d.get(k, default)
DictGet(d, k, default) == IF k \in DOMAIN d THEN d[k] ELSE default

\* float("inf"), the default max_turns of run_and_stream: it stands above
\* every count a run reaches, is only ever compared with one, and is no int
FloatInf == 1000000

\* __CTX_VARS_NAME__
CTX_VARS_NAME == "context_variables"

(* ---------------- the caller's agents and tool functions --------------- *)
\* Agent.name of the agents the caller built
Agents == {"A", "B", "C"}

\* the agents a run is started with ("B" is reached by a handoff)
StartAgents == {"A", "C"}

\* agent.functions: the FunctionDef names, in order
Functions(a) ==
    CASE a = "A" -> <<"transfer_to_b", "escalate", "update_vars", "peek", "boom",
                      "local_only">>
      [] a = "B" -> <<"transfer_to_b", "peek">>
      [] OTHER   -> <<>>

\* the parameters each tool function declares
Params(name) ==
    CASE name = "peek" -> {CTX_VARS_NAME}
      [] name = "boom" -> {"kind"}
      [] OTHER         -> {}

\* func_def.function.__code__.co_varnames of each tool function: its
\* parameters, then its other local variables
CoVarnames(name) ==
    CASE name = "peek"       -> {CTX_VARS_NAME, "seen"}
      [] name = "boom"       -> {"kind"}
      [] name = "local_only" -> {CTX_VARS_NAME}
      [] OTHER               -> {}

\* every tool name of the caller's agents, and one that none of them has
ToolNames ==
    {"transfer_to_b", "escalate", "update_vars", "peek", "boom", "local_only",
     "missing_tool"}

\* the argument payloads the backend may send: the empty object for every
\* name and, for boom, also an object with one argument and a truncated one
Payloads(name) ==
    IF name = "boom" THEN {"{}", "{\"kind\": \"object\"}", "{"} ELSE {"{}"}

\* json.loads(tool_call.function.arguments): whether it raises, and the dict
JsonLoads(arguments) ==
    CASE arguments = "{}" -> [raises |-> FALSE, args |-> EmptyDict]
      [] arguments = "{\"kind\": \"object\"}" ->
            [raises |-> FALSE, args |-> [kind |-> "object"]]
      [] OTHER -> [raises |-> TRUE, args |-> EmptyDict]

\* function_map[name](**args): what the tool does when invoked.
\*   args:     the parsed arguments of the model
\*   injected: TRUE when args also carries the live context mapping
\*   ctx:      that mapping as it stands at the call
\* gives whether it raises, the raw return value and the mapping after the
\* call (a tool holding the injected mapping may write to it in place)
Invoke(name, args, injected, ctx) ==
    CASE name = "transfer_to_b" ->
            [raises |-> FALSE, ctx |-> ctx,
             raw |-> [kind |-> "Agent", agent |-> "B"]]
      [] name = "escalate" ->
            [raises |-> FALSE, ctx |-> ctx,
             raw |-> [kind |-> "Result", value |-> "escalated",
                      agent |-> "C", context_variables |-> [a |-> 5]]]
      [] name = "update_vars" ->
            [raises |-> FALSE, ctx |-> ctx,
             raw |-> [kind |-> "Result", value |-> "ok",
                      agent |-> NoAgent,
                      context_variables |-> [a |-> 2, b |-> 3]]]
      [] name = "peek" ->
            \* def peek(context_variables):
            \*     seen = context_variables.get("a", 0)
            \*     context_variables["p"] = seen
            \*     return seen or "nothing"
            [raises |-> FALSE,
             ctx |-> DictSet(ctx, "p", DictGet(ctx, "a", 0)),
             raw |-> IF DictGet(ctx, "a", 0) = 0
                     THEN [kind |-> "str", value |-> "nothing"]
                     ELSE [kind |-> "int", value |-> DictGet(ctx, "a", 0)]]
      [] name = "local_only" ->
            \* def local_only():
            \*     context_variables = {}
            \*     return "local"
            \* a keyword argument it does not declare is a TypeError
            [raises |-> injected, ctx |-> ctx,
             raw |-> [kind |-> "str", value |-> "local"]]
      [] OTHER ->
            \* def boom(kind="raise"):
            \*     if kind == "object": return Unprintable()  # __str__ raises
            \*     raise RuntimeError
            IF DictGet(args, "kind", "raise") = "object"
            THEN [raises |-> FALSE, ctx |-> ctx,
                  raw |-> [kind |-> "unprintable", value |-> 0]]
            ELSE [raises |-> TRUE, ctx |-> ctx,
                  raw |-> [kind |-> "int", value |-> 0]]

(* ------------------------ handle_function_result ----------------------- *)
\* json.dumps({"assistant": agent.name})
JsonAssistant(name) == "{\"assistant\": \"" \o name \o "\"}"

\* Result(...) with the defaults of the Result type
MkResult(value, agent, cv) ==
    [value |-> value, agent |-> agent, context_variables |-> cv]

\* str(result) raises, so handle_function_result raises TypeError (112-115)
NormalizeNeverRaises(raw) == FALSE

NormalizeRaises(raw) == raw.kind = "unprintable"

\* str(result) of a value that is neither a Result nor an Agent: a string
\* (kind "str") is itself, an integer (kind "int") its decimal numeral
Str(raw) == IF raw.kind = "str" THEN raw.value ELSE ToString(raw.value)

handle_function_result(raw) ==
    CASE raw.kind = "Result" ->
            MkResult(raw.value, raw.agent, raw.context_variables)
      [] raw.kind = "Agent" ->
            MkResult(JsonAssistant(raw.agent), raw.agent, EmptyDict)
      [] OTHER ->
            MkResult(Str(raw), NoAgent, EmptyDict)

(* ------------------------------- state --------------------------------- *)
VARIABLES
    client,             \* Swarm.client: the backend the Swarm was built with
    mode,               \* which entry point was called: "run" / "run_and_stream"
    agent,              \* argument agent
    max_turns,          \* argument max_turns
    execute_tools,      \* argument execute_tools
    dicts,              \* heap of dict objects: object id -> mapping
    lists,              \* heap of list objects: object id -> sequence
    context_variables,  \* the local name context_variables: a dict object id
    history,            \* the local name history: a list object id
    init_len,
    active_agent,
    pc,                 \* position in run / run_and_stream
    turn,               \* iterations of run's for loop started so far
    requests,           \* calls of get_chat_completion so far
    ncalls,             \* tool calls issued by the backend so far
    message,            \* the message of the current turn
    chunks,             \* run_and_stream: deltas of the completion not yet read
    tool_calls,         \* handle_tool_calls: its argument
    tc_i,               \* handle_tool_calls: index of the next tool call
    partial_response,   \* handle_tool_calls: its partial_response
    invoked,            \* log of the tool invocations and what each returned
    events,             \* run_and_stream: everything yielded so far
    response,           \* the Response returned / yielded, <<>> while none
    instructions_ctx,   \* get_chat_completion: the mapping the instructions got
    messages0,          \* the caller's messages list as it was before the call
    context0            \* the caller's context mapping as it was before the call

vars == <<client, mode, agent, max_turns, execute_tools, dicts, lists,
          context_variables, history, init_len, active_agent, pc, turn,
          requests, ncalls, message, chunks, tool_calls, tc_i,
          partial_response, invoked, events, response, instructions_ctx,
          messages0, context0>>

\* the running context mapping and the history list
Ctx == dicts[context_variables]
Hist == lists[history]

\* list.append / list.extend on the list object ref
ListExtend(ref, items) == [lists EXCEPT ![ref] = @ \o items]

\* Response(messages=[], agent=None, context_variables={})
EmptyResponse ==
    [messages |-> <<>>, agent |-> NoAgent, context_variables |-> EmptyDict]

\* no message yet
NoMessage == [role |-> "None"]

(* ------------------------------ backend -------------------------------- *)
\* the id the backend gives its n-th tool call, and the n of an id
CallId(n) == "call_" \o ToString(n)

CallNum(id) == CHOOSE n \in 1..(MaxToolCalls + 1) : CallId(n) = id

\* ChatCompletionMessageToolCall(id, function=Function(name, arguments), type)
ToolCall(id, name, arguments) ==
    [id |-> id, type |-> "function",
     function |-> [name |-> name, arguments |-> arguments]]

\* the names the backend puts in a tool call: a function of the agent whose
\* tools it was given with the request (tools, 76-93), a function of the
\* agent the call started with (named in the history it was given), or a
\* name no agent has
BackendNames ==
    { n \in ToolNames :
        \/ n = "missing_tool"
        \/ \E i \in 1..Len(Functions(active_agent)) : Functions(active_agent)[i] = n
        \/ \E i \in 1..Len(Functions(agent)) : Functions(agent)[i] = n }

\* the name and payload of the tool calls the backend may issue
CallShapes ==
    UNION { { [name |-> n, arguments |-> a] : a \in Payloads(n) } :
              n \in BackendNames }

\* the tool-call lists a completion may carry: any shapes, any length up to
\* MaxCalls, ids numbered on from the calls issued so far
BackendToolCalls ==
    LET room == IF MaxToolCalls - ncalls < MaxCalls
                THEN MaxToolCalls - ncalls ELSE MaxCalls
    IN  UNION { { [i \in 1..k |->
                      ToolCall(CallId(ncalls + i), shapes[i].name, shapes[i].arguments)] :
                    shapes \in [1..k -> CallShapes] } : k \in 0..room }

\* completion["choices"][0]["message"] of a non-streamed completion
BackendMessage(tcs) ==
    [role |-> "assistant", content |-> "reply", tool_calls |-> tcs]

\* Swarm(client): the default LocalModelClient (54-57), or a client of the
\* caller's whose completions are as the loops of run and run_and_stream
\* read them
Clients == {"LocalModelClient", "caller"}

\* the message of LocalModelClient.chat_completions_create (40-49): role and
\* content only, whatever tools and stream were passed
LocalMessage == [role |-> "assistant", content |-> "reply"]

\* the message a completion of the client may carry (streamed, it comes in
\* the chunks of BackendChunks; that of LocalModelClient is never streamed)
Completions ==
    IF client = "LocalModelClient"
    THEN {LocalMessage}
    ELSE { BackendMessage(tcs) : tcs \in BackendToolCalls }

\* message.get("tool_calls"), None being the empty sequence
MessageToolCalls(msg) ==
    IF "tool_calls" \in DOMAIN msg THEN msg.tool_calls ELSE <<>>

(* -------------------------------- Init --------------------------------- *)
\* the caller's seed messages
SeedLists ==
    { [i \in 1..k |-> [role |-> "user", content |-> "hi"]] : k \in {0, MaxSeed} }

\* the caller's context mappings
SeedContexts == { EmptyDict, [a |-> 1] }

Init ==
    /\ client \in Clients
    /\ mode \in {"run", "run_and_stream"}
    /\ agent \in StartAgents
    /\ max_turns \in (0..MaxTurns) \cup {FloatInf}
    /\ execute_tools \in BOOLEAN
    /\ messages0 \in SeedLists
    /\ context0 \in SeedContexts
    /\ dicts = [o \in {"caller", "copy"} |-> IF o = "caller" THEN context0 ELSE EmptyDict]
    /\ lists = [o \in {"caller", "copy"} |-> IF o = "caller" THEN messages0 ELSE <<>>]
    /\ context_variables = "caller"
    /\ history = "caller"
    /\ init_len = 0
    /\ active_agent = NoAgent
    /\ pc = "call"
    /\ turn = 0
    /\ requests = 0
    /\ ncalls = 0
    /\ message = NoMessage
    /\ chunks = <<>>
    /\ tool_calls = <<>>
    /\ tc_i = 1
    /\ partial_response = EmptyResponse
    /\ invoked = <<>>
    /\ events = <<>>
    /\ response = <<>>
    /\ instructions_ctx = EmptyDict

(* ----------------------- entry of run / run_and_stream ----------------- *)
\* copy.deepcopy(x): a new object, here the object id "copy"
ShallowRef(ref) == ref

DeepCopyRef(ref) == "copy"

\* run 267-270, run_and_stream 177-180
Call ==
    /\ pc = "call"
    /\ active_agent' = agent
    /\ context_variables' = DeepCopyRef(context_variables)
    /\ dicts' = [dicts EXCEPT ![context_variables'] = dicts[context_variables]]
    /\ history' = DeepCopyRef("caller")
    /\ lists' = [lists EXCEPT ![history'] = lists["caller"]]
    /\ init_len' = Len(lists["caller"])
    /\ pc' = "loop"
    /\ UNCHANGED <<client, mode, agent, max_turns, execute_tools, turn, requests,
                   ncalls, message, chunks, tool_calls, tc_i,
                   partial_response, invoked, events, response, messages0,
                   context0,
                   instructions_ctx>>

(* --------------------------------- run --------------------------------- *)
\* get_chat_completion 68-73: context_variables = defaultdict(str,
\* context_variables), a copy of the running mapping, is what a callable
\* agent.instructions is given
InstructionsContext == Ctx

\* message["sender"] = name
SetSender(msg, name) ==
    [k \in DOMAIN msg \cup {"sender"} |-> IF k = "sender" THEN name ELSE msg[k]]

\* range(max_turns) raises TypeError when max_turns is a float (272)
RangeRaises == max_turns = FloatInf

\* for _ in range(max_turns)
RunLoopCondOffByOne == turn <= max_turns

RunLoopCond == turn < max_turns

\* not message.get("tool_calls") or not execute_tools
BreaksOnlyWhenDisabled(msg) == ~execute_tools

BreaksOnlyOnNoCalls(msg) == MessageToolCalls(msg) = <<>>

BreaksTurn(msg) == MessageToolCalls(msg) = <<>> \/ ~execute_tools

\* run 272-292: one iteration up to the call of handle_tool_calls (124-125)
RunTurn ==
    /\ pc = "loop"
    /\ mode = "run"
    /\ ~RangeRaises
    /\ RunLoopCond
    /\ turn' = turn + 1
    /\ requests' = requests + 1
    /\ instructions_ctx' = InstructionsContext
    /\ \E completion \in Completions :
        LET msg == SetSender(completion, active_agent)
        IN  /\ message' = msg
            /\ ncalls' = ncalls + Len(MessageToolCalls(msg))
            /\ lists' = ListExtend(history, <<msg>>)
            /\ IF BreaksTurn(msg)
               THEN /\ pc' = "return"
                    /\ UNCHANGED <<tool_calls, tc_i, partial_response>>
               ELSE /\ pc' = "dispatch"
                    /\ tool_calls' = MessageToolCalls(msg)
                    /\ tc_i' = 1
                    /\ partial_response' = EmptyResponse
    /\ UNCHANGED <<client, mode, agent, max_turns, execute_tools, dicts,
                   context_variables, history, init_len, active_agent,
                   chunks, invoked, events, response, messages0, context0>>

\* run 272: the for statement evaluates range(max_turns), which raises
RunRangeRaises ==
    /\ pc = "loop"
    /\ mode = "run"
    /\ RangeRaises
    /\ pc' = "raised"
    /\ UNCHANGED <<client, mode, agent, max_turns, execute_tools, dicts, lists,
                   context_variables, history, init_len, active_agent, turn,
                   requests, ncalls, message, chunks, tool_calls, tc_i,
                   partial_response, invoked, events, response, messages0,
                   context0, instructions_ctx>>

(* --------------------------- handle_tool_calls ------------------------- *)
\* name in function_map, function_map = {f.name: f.function for f in functions}
InFunctionMap(name, functions) ==
    \E i \in 1..Len(functions) : functions[i] = name

\* __CTX_VARS_NAME__ in func_def.function.__code__.co_varnames
Injects(name) == CTX_VARS_NAME \in CoVarnames(name)

\* the tool message of a call whose name is not in function_map (131-136)
NotFoundMessageNoPrefix(tool_call) ==
    [role |-> "tool", tool_call_id |-> tool_call.id,
     tool_name |-> tool_call.function.name,
     content |-> "Tool " \o tool_call.function.name \o " not found"]

NotFoundMessage(tool_call) ==
    [role |-> "tool", tool_call_id |-> tool_call.id,
     tool_name |-> tool_call.function.name,
     content |-> "Error: Tool " \o tool_call.function.name \o " not found."]

\* the tool message of an invoked call (152-157)
ToolMessageUnnamed(tool_call, result) ==
    [role |-> "tool", tool_call_id |-> tool_call.id,
     tool_name |-> "",
     content |-> result.value]

ToolMessage(tool_call, result) ==
    [role |-> "tool", tool_call_id |-> tool_call.id,
     tool_name |-> tool_call.function.name,
     content |-> result.value]

\* if result.agent and not partial_response.agent (161-162)
LastAgentWins(current, new) == IF new # NoAgent THEN new ELSE current

FirstAgentWins(current, new) ==
    IF new # NoAgent /\ current = NoAgent THEN new ELSE current

\* the functions handle_tool_calls is called with: active_agent.functions
\* (240-242, 290-292)
InitialAgentFunctions == Functions(agent)

DispatchFunctions == Functions(active_agent)

\* args[__CTX_VARS_NAME__] = context_variables: the mapping itself (145)
InjectedWithDeltas ==
    DictUpdate(Ctx, partial_response.context_variables)

InjectedMapping == Ctx

\* handle_tool_calls 127-163: the loop body for one tool call
DispatchCall ==
    /\ pc = "dispatch"
    /\ tc_i <= Len(tool_calls)
    /\ LET tool_call == tool_calls[tc_i]
           name == tool_call.function.name
           loaded == JsonLoads(tool_call.function.arguments)
       IN  IF ~InFunctionMap(name, DispatchFunctions)
           THEN /\ partial_response' =
                      [partial_response EXCEPT
                          !.messages = Append(@, NotFoundMessage(tool_call))]
                /\ tc_i' = tc_i + 1
                /\ UNCHANGED <<dicts, invoked, pc>>
           ELSE IF loaded.raises
           THEN /\ pc' = "raised"
                /\ UNCHANGED <<dicts, invoked, partial_response, tc_i>>
           ELSE LET out == Invoke(name, loaded.args, Injects(name), InjectedMapping)
                    fatal == out.raises \/ NormalizeRaises(out.raw)
                    result == handle_function_result(out.raw)
                IN  /\ invoked' = Append(invoked,
                          [req |-> requests, id |-> tool_call.id,
                           name |-> name, injected |-> Injects(name),
                           seen |-> InjectedMapping, raised |-> out.raises,
                           agent |-> IF fatal THEN NoAgent ELSE result.agent,
                           delta |-> IF fatal THEN EmptyDict
                                     ELSE result.context_variables])
                    /\ dicts' = IF Injects(name)
                                THEN [dicts EXCEPT ![context_variables] = out.ctx]
                                ELSE dicts
                    /\ IF fatal
                       THEN /\ pc' = "raised"
                            /\ UNCHANGED <<partial_response, tc_i>>
                       ELSE /\ partial_response' =
                                  [messages |->
                                      Append(partial_response.messages,
                                             ToolMessage(tool_call, result)),
                                   context_variables |->
                                      DictUpdate(partial_response.context_variables,
                                                 result.context_variables),
                                   agent |->
                                      FirstAgentWins(partial_response.agent,
                                                     result.agent)]
                            /\ tc_i' = tc_i + 1
                            /\ pc' = pc
    /\ UNCHANGED <<client, mode, agent, max_turns, execute_tools, lists,
                   context_variables, history, init_len, active_agent, turn,
                   requests, ncalls, message, chunks, tool_calls, events,
                   response, messages0, context0,
                   instructions_ctx>>

(* ------------------------- run, after the dispatch --------------------- *)
\* the notice appended on a switch (300-303)
TransferNotice(name) ==
    [role |-> "system", content |-> "Conversation transferred to " \o name]

\* partial_response.agent and partial_response.agent != active_agent (298)
SwitchesAlways(pr, active) == pr.agent # NoAgent

Switches(pr, active) == pr.agent # NoAgent /\ pr.agent # active

\* run 294-304: handle_tool_calls has returned
RunMerge ==
    /\ pc = "dispatch"
    /\ mode = "run"
    /\ tc_i > Len(tool_calls)
    /\ dicts' = [dicts EXCEPT ![context_variables] =
                    DictUpdate(@, partial_response.context_variables)]
    /\ IF Switches(partial_response, active_agent)
       THEN /\ active_agent' = partial_response.agent
            /\ lists' = ListExtend(history,
                          partial_response.messages
                            \o <<TransferNotice(partial_response.agent)>>)
       ELSE /\ active_agent' = active_agent
            /\ lists' = ListExtend(history, partial_response.messages)
    /\ pc' = "loop"
    /\ UNCHANGED <<client, mode, agent, max_turns, execute_tools, context_variables,
                   history, init_len, turn, requests, ncalls, message, chunks,
                   tool_calls, tc_i, partial_response, invoked, events,
                   response, messages0, context0,
                   instructions_ctx>>

\* history[init_len:]
WholeHistory(h, n) == h

SliceFrom(h, n) == SubSeq(h, n + 1, Len(h))

\* Response(messages=history[init_len:], agent=active_agent,
\*          context_variables=context_variables)
FinalResponseFirstAgent ==
    [messages |-> SliceFrom(Hist, init_len), agent |-> agent,
     context_variables |-> Ctx]

FinalResponse ==
    [messages |-> SliceFrom(Hist, init_len), agent |-> active_agent,
     context_variables |-> Ctx]

\* run 306-310: after a break or when range(max_turns) is exhausted
RunReturn ==
    /\ mode = "run"
    /\ pc = "return" \/ (pc = "loop" /\ ~RunLoopCond)
    /\ response' = <<FinalResponse>>
    /\ pc' = "done"
    /\ UNCHANGED <<client, mode, agent, max_turns, execute_tools, dicts, lists,
                   context_variables, history, init_len, active_agent, turn,
                   requests, ncalls, message, chunks, tool_calls, tc_i,
                   partial_response, invoked, events, messages0, context0,
                   instructions_ctx>>

(* ---------------------------- run_and_stream -------------------------- *)
\* while len(history) - init_len < max_turns (182)
StreamLoopCond == Len(Hist) - init_len < max_turns

\* the deltas by which the backend streams the message carrying tcs: one
\* with the role and the content, then two per tool call, keyed by its index:
\* the first with the id, the type and the name, the second with the
\* argument text; a field the fragment does not carry is None
BackendChunks(tcs) ==
    <<[role |-> "assistant", content |-> "reply", tool_calls |-> <<>>]>>
    \o [i \in 1..(2 * Len(tcs)) |->
          LET j == (i + 1) \div 2
          IN  [role |-> "None",
               tool_calls |->
                 <<IF i % 2 = 1
                   THEN [index |-> j - 1, id |-> tcs[j].id,
                         type |-> tcs[j].type,
                         function |-> [name |-> tcs[j].function.name,
                                       arguments |-> ""]]
                   ELSE [index |-> j - 1, id |-> "None", type |-> "None",
                         function |-> [name |-> "None",
                                       arguments |->
                                          tcs[j].function.arguments]]>>]]

\* the accumulator built at 184-196; its tool_calls is keyed by index
NewStreamMessage(sender) ==
    [content |-> "", sender |-> sender, role |-> "assistant",
     function_call |-> "None", tool_calls |-> <<>>]

\* the default entry of the accumulator's tool_calls (188-194)
EmptyToolCall ==
    [function |-> [arguments |-> "", name |-> ""], id |-> "", type |-> ""]

\* a string sub-field of a fragment is concatenated to what was accumulated;
\* a sub-field that is absent or None leaves it
MergeStr(old, frag, key) ==
    IF key \in DOMAIN frag /\ frag[key] # "None" THEN old \o frag[key] ELSE old

\* merge_chunk(message, delta): content is appended, a tool-call fragment is
\* merged field by field into the entry of its index (a new index opens the
\* default entry), any other field of the delta overwrites. The indexes
\* arrive in order, so the keyed collection is held as the sequence of its
\* values.
merge_chunk(msg, delta) ==
    LET other == DOMAIN delta \ {"content", "tool_calls"}
        base == [k \in DOMAIN msg \cup other |->
                    IF k \in other THEN delta[k] ELSE msg[k]]
        withContent == [base EXCEPT !.content = MergeStr(@, delta, "content")]
    IN  IF "tool_calls" \notin DOMAIN delta \/ delta.tool_calls = <<>>
        THEN withContent
        ELSE LET frag == delta.tool_calls[1]
                 i == frag.index + 1
                 old == IF i <= Len(withContent.tool_calls)
                        THEN withContent.tool_calls[i] ELSE EmptyToolCall
                 entry ==
                    [id |-> MergeStr(old.id, frag, "id"),
                     type |-> MergeStr(old.type, frag, "type"),
                     function |->
                        IF "function" \in DOMAIN frag
                        THEN [name |-> MergeStr(old.function.name,
                                                frag.function, "name"),
                              arguments |-> MergeStr(old.function.arguments,
                                                     frag.function, "arguments")]
                        ELSE old.function]
             IN  IF i <= Len(withContent.tool_calls)
                 THEN [withContent EXCEPT !.tool_calls[i] = entry]
                 ELSE [withContent EXCEPT !.tool_calls = Append(@, entry)]

\* delta["sender"] = active_agent.name on an assistant-role delta (210-211)
StampDelta(delta, name) ==
    IF delta.role = "assistant"
    THEN [role |-> delta.role, content |-> delta.content,
          tool_calls |-> delta.tool_calls, sender |-> name]
    ELSE delta

\* delta.pop("role", None); delta.pop("sender", None) (213-214)
StripDelta(delta) == [k \in DOMAIN delta \ {"role", "sender"} |-> delta[k]]

\* yield {"delim": "start"} (207)
DelimStart == [delim |-> "start"]

\* yield {"delim": "end"} (216)
DelimStartAgain == [delim |-> "start"]

DelimEnd == [delim |-> "end"]

\* the generator is suspended at `yield delta` (212): the consumer holds the
\* delta, the last of the events, and the accumulator has not got it yet
HeldDelta ==
    /\ pc = "stream"
    /\ events # <<>>
    /\ "delim" \notin DOMAIN events[Len(events)]

\* run_and_stream 213-215, run when the consumer resumes the generator from
\* `yield delta`: role and sender are popped from the object the consumer
\* holds, and that object, as it then stands, is merged into the accumulator
Resumed ==
    IF HeldDelta
    THEN [events |-> [events EXCEPT ![Len(events)] = StripDelta(@)],
          message |-> merge_chunk(message, StripDelta(events[Len(events)]))]
    ELSE [events |-> events, message |-> message]

\* chunk.choices[0] (209) raises AttributeError: the completion of
\* LocalModelClient is a dict also when stream is set, so `for chunk in
\* completion` (208) walks its keys and the first chunk is the str "choices"
ChunkRaises == client = "LocalModelClient"

\* run_and_stream 182-207: the loop test, the request and yield {"delim": "start"}
StreamTurn ==
    /\ pc = "loop"
    /\ mode = "run_and_stream"
    /\ StreamLoopCond
    /\ message' = NewStreamMessage(agent)
    /\ requests' = requests + 1
    /\ instructions_ctx' = InstructionsContext
    /\ \E completion \in Completions :
        /\ chunks' = IF ChunkRaises THEN <<>>
                      ELSE BackendChunks(completion.tool_calls)
        /\ ncalls' = ncalls + Len(MessageToolCalls(completion))
    /\ events' = Append(events, DelimStart)
    /\ pc' = "stream"
    /\ UNCHANGED <<client, mode, agent, max_turns, execute_tools, dicts, lists,
                   context_variables, history, init_len, active_agent, turn,
                   tool_calls, tc_i, partial_response, invoked, response,
                   messages0, context0>>

\* run_and_stream 208-209, resumed from yield {"delim": "start"}: reading
\* the first chunk raises
StreamChunkRaises ==
    /\ pc = "stream"
    /\ ChunkRaises
    /\ pc' = "raised"
    /\ UNCHANGED <<client, mode, agent, max_turns, execute_tools, dicts, lists,
                   context_variables, history, init_len, active_agent, turn,
                   requests, ncalls, message, chunks, tool_calls, tc_i,
                   partial_response, invoked, events, response, messages0,
                   context0, instructions_ctx>>

\* run_and_stream 208-212, from one yield to `yield delta`: the delta held
\* so far, if any, is stripped and merged, the next chunk is stamped and
\* handed out
StreamDelta ==
    /\ pc = "stream"
    /\ ~ChunkRaises
    /\ chunks # <<>>
    /\ events' = Append(Resumed.events, StampDelta(Head(chunks), active_agent))
    /\ message' = Resumed.message
    /\ chunks' = Tail(chunks)
    /\ UNCHANGED <<client, mode, agent, max_turns, execute_tools, dicts, lists,
                   context_variables, history, init_len, active_agent, pc,
                   turn, requests, ncalls, tool_calls, tc_i, partial_response,
                   invoked, response, messages0, context0,
                   instructions_ctx>>

\* the consumer, holding the yielded delta (the object the generator merges
\* on resumption, 212-215), changes its content
ConsumerChangesDelta ==
    /\ HeldDelta
    /\ "content" \in DOMAIN events[Len(events)]
    /\ events[Len(events)].content = "reply"
    /\ events' = [events EXCEPT ![Len(events)].content = "changed by caller"]
    /\ UNCHANGED <<client, mode, agent, max_turns, execute_tools, dicts, lists,
                   context_variables, history, init_len, active_agent, pc,
                   turn, requests, ncalls, message, chunks, tool_calls, tc_i,
                   partial_response, invoked, response, messages0, context0,
                   instructions_ctx>>

\* run_and_stream 213-216, from the last `yield delta` (or the start, when
\* the completion has no chunk) to yield {"delim": "end"}
StreamEnd ==
    /\ pc = "stream"
    /\ ~ChunkRaises
    /\ chunks = <<>>
    /\ events' = Append(Resumed.events, DelimEnd)
    /\ message' = Resumed.message
    /\ pc' = "end"
    /\ UNCHANGED <<client, mode, agent, max_turns, execute_tools, dicts, lists,
                   context_variables, history, init_len, active_agent, turn,
                   requests, ncalls, chunks, tool_calls, tc_i,
                   partial_response, invoked, response, messages0, context0,
                   instructions_ctx>>

\* run_and_stream 218-238, when the consumer resumes the generator from
\* yield {"delim": "end"}: the message is appended, then the break or the
\* call of handle_tool_calls (124-125). The keyed tool_calls of the
\* accumulator is held in index order, so list(....values()) is the sequence
\* itself, and the None of 220-221 is the empty sequence.
StreamAppend ==
    /\ pc = "end"
    /\ lists' = ListExtend(history, <<message>>)
    /\ IF BreaksTurn(message)
       THEN /\ pc' = "return"
            /\ UNCHANGED <<tool_calls, tc_i, partial_response>>
       ELSE /\ pc' = "dispatch"
            /\ tool_calls' = [i \in 1..Len(message.tool_calls) |->
                                ToolCall(message.tool_calls[i].id,
                                         message.tool_calls[i].function.name,
                                         message.tool_calls[i].function.arguments)]
            /\ tc_i' = 1
            /\ partial_response' = EmptyResponse
    /\ UNCHANGED <<client, mode, agent, max_turns, execute_tools, dicts,
                   context_variables, history, init_len, active_agent, turn,
                   requests, ncalls, message, chunks, invoked, events,
                   response, messages0, context0, instructions_ctx>>

\* run_and_stream 243-246: handle_tool_calls has returned
StreamMerge ==
    /\ pc = "dispatch"
    /\ mode = "run_and_stream"
    /\ tc_i > Len(tool_calls)
    /\ lists' = ListExtend(history, partial_response.messages)
    /\ dicts' = [dicts EXCEPT ![context_variables] =
                    DictUpdate(@, partial_response.context_variables)]
    /\ active_agent' = IF partial_response.agent # NoAgent
                       THEN partial_response.agent ELSE active_agent
    /\ pc' = "loop"
    /\ UNCHANGED <<client, mode, agent, max_turns, execute_tools, context_variables,
                   history, init_len, turn, requests, ncalls, message, chunks,
                   tool_calls, tc_i, partial_response, invoked, events,
                   response, messages0, context0,
                   instructions_ctx>>

\* run_and_stream 248-254: yield {"response": Response(...)}
StreamReturn ==
    /\ mode = "run_and_stream"
    /\ pc = "return" \/ (pc = "loop" /\ ~StreamLoopCond)
    /\ response' = <<FinalResponse>>
    /\ events' = Append(events, [response |-> FinalResponse])
    /\ pc' = "done"
    /\ UNCHANGED <<client, mode, agent, max_turns, execute_tools, dicts, lists,
                   context_variables, history, init_len, active_agent, turn,
                   requests, ncalls, message, chunks, tool_calls, tc_i,
                   partial_response, invoked, messages0, context0,
                   instructions_ctx>>

(* ---------------------------- specification ---------------------------- *)
Next ==
    \/ Call
    \/ RunTurn
    \/ RunRangeRaises
    \/ DispatchCall
    \/ RunMerge
    \/ RunReturn
    \/ StreamTurn
    \/ StreamChunkRaises
    \/ StreamDelta
    \/ ConsumerChangesDelta
    \/ StreamEnd
    \/ StreamAppend
    \/ StreamMerge
    \/ StreamReturn

Spec == Init /\ [][Next]_vars

TypeOK ==
    /\ pc \in {"call", "loop", "dispatch", "stream", "end", "return", "raised",
             "done"}
    /\ requests \in 0..(MaxToolCalls + 1)
    /\ Len(response) <= 1

(* ------------------------- helpers of the claims ----------------------- *)
\* the log entries of the tool calls invoked in the current turn
InvokedThisTurn == SelectSeq(invoked, LAMBDA e : e.req = requests)

\* the messages appended to the history since the call
Appended == SubSeq(Hist, init_len + 1, Len(Hist))

\* the first agent returned by a call of the sequence of log entries, if any
RECURSIVE FirstReturnedAgent(_)
FirstReturnedAgent(log) ==
    IF log = <<>> THEN NoAgent
    ELSE IF Head(log).agent # NoAgent THEN Head(log).agent
    ELSE FirstReturnedAgent(Tail(log))

\* handle_tool_calls has dispatched every call and is about to return
DispatchReturns == pc = "dispatch" /\ tc_i > Len(tool_calls)

\* the step in which run / run_and_stream takes over what handle_tool_calls returned
MergeStep == DispatchReturns /\ pc' = "loop"

(* ------------------------------- claims -------------------------------- *)
\* C1: one call of run issues at most max_turns completion requests, also in
\* runs with agent handoffs.
C1_AtMostMaxTurnsRequests ==
    mode = "run" => requests <= max_turns

\* C1 witness: a finished run that used all of its max_turns >= 2 requests and
\* switched agents on the way.
C1_Witness ==
    /\ mode = "run"
    /\ pc = "done"
    /\ max_turns >= 2
    /\ requests = max_turns
    /\ active_agent # agent

\* C2 as claimed: a run of an agent without functions, max_turns > 0, ends
\* after exactly one completion request with one message in its Response,
\* whatever message the backend returned.
C2_AsClaimed ==
    (mode = "run" /\ Functions(agent) = <<>> /\ max_turns > 0 /\ pc = "done")
        => (requests = 1 /\ Len(response[1].messages) = 1)

\* C2 amended: a run of an agent without functions, max_turns > 0, whose first
\* backend message carries no tool calls (or whose tool execution is disabled)
\* makes no second completion request and appends nothing after the assistant
\* message; its Response holds exactly that one message.
C2_NoToolsOneRequest ==
    (/\ mode = "run"
     /\ Functions(agent) = <<>>
     /\ max_turns > 0
     /\ requests >= 1
     /\ (MessageToolCalls(Hist[init_len + 1]) = <<>> \/ ~execute_tools))
        => /\ requests = 1
           /\ pc \in {"return", "done"}
           /\ Len(Appended) = 1
           /\ Appended[1].role = "assistant"
           /\ pc = "done" => response[1].messages = Appended

\* C2 witness: such a run has returned, with tool execution enabled.
C2_Witness ==
    /\ mode = "run"
    /\ Functions(agent) = <<>>
    /\ max_turns > 1
    /\ execute_tools
    /\ pc = "done"
    /\ requests = 1
    /\ Len(response[1].messages) = 1

\* C3: within one handle_tool_calls invocation the aggregated next agent is
\* the agent returned by the earliest call that returned one (none if no call
\* did), and run's active agent after the turn is that agent.
C3_FirstAgentWins ==
    /\ [](pc = "dispatch" =>
            partial_response.agent = FirstReturnedAgent(InvokedThisTurn))
    /\ [][(MergeStep /\ FirstReturnedAgent(InvokedThisTurn) # NoAgent)
            => active_agent' = FirstReturnedAgent(InvokedThisTurn)]_vars

\* C3 witness: two calls of one turn returned agent B, then agent C, and the
\* run went on with B.
C3_Witness ==
    /\ mode = "run"
    /\ pc = "loop"
    /\ Len(InvokedThisTurn) = 2
    /\ InvokedThisTurn[1].agent = "B"
    /\ InvokedThisTurn[2].agent = "C"
    /\ active_agent = "B"

\* the keys returned by the calls of a sequence of log entries
ReturnedKeys(log) == UNION { DOMAIN log[i].delta : i \in 1..Len(log) }

\* the index of the last call of the log that returned key k
LastReturning(log, k) ==
    CHOOSE i \in 1..Len(log) :
        /\ k \in DOMAIN log[i].delta
        /\ \A j \in (i + 1)..Len(log) : k \notin DOMAIN log[j].delta

\* the next tool call of the turn names a function the active agent lacks
NextCallNotFound ==
    /\ pc = "dispatch"
    /\ tc_i <= Len(tool_calls)
    /\ \A i \in 1..Len(Functions(active_agent)) :
          Functions(active_agent)[i] # tool_calls[tc_i].function.name

\* the next tool call of the turn is invoked with the context mapping injected
NextCallInjected ==
    /\ pc = "dispatch"
    /\ tc_i <= Len(tool_calls)
    /\ ~NextCallNotFound
    /\ CTX_VARS_NAME \in CoVarnames(tool_calls[tc_i].function.name)

\* C4: merging is right-biased at both levels. Within a turn the aggregated
\* delta holds exactly the keys some call returned, each with the value of the
\* last call that returned it. When handle_tool_calls has returned, the update
\* gives the running context the delta's value for every key of the delta and
\* leaves every other key as it was; during the dispatch the running context
\* changes only by a tool writing to the injected mapping.
C4_RightBiasedMerge ==
    /\ [](pc = "dispatch" =>
            LET log == InvokedThisTurn
                delta == partial_response.context_variables
            IN  /\ DOMAIN delta = ReturnedKeys(log)
                /\ \A k \in DOMAIN delta :
                      delta[k] = log[LastReturning(log, k)].delta[k])
    /\ [][MergeStep =>
            LET delta == partial_response.context_variables
            IN  /\ DOMAIN Ctx' = DOMAIN Ctx \cup DOMAIN delta
                /\ \A k \in DOMAIN delta : Ctx'[k] = delta[k]
                /\ \A k \in DOMAIN Ctx \ DOMAIN delta : Ctx'[k] = Ctx[k]]_vars
    /\ [][(pc = "dispatch" /\ ~MergeStep /\ ~NextCallInjected)
            => Ctx' = Ctx]_vars

\* C4 witness: on the base {a:1}, update_vars returned {a:2,b:3}, then
\* escalate returned {a:5} in the same turn, and the run merged them to
\* {a:5,b:3}.
C4_Witness ==
    /\ context0 = [a |-> 1]
    /\ pc = "loop"
    /\ requests = 1
    /\ Len(InvokedThisTurn) = 2
    /\ InvokedThisTurn[1].delta = [a |-> 2, b |-> 3]
    /\ InvokedThisTurn[2].delta = [a |-> 5]
    /\ Ctx = [a |-> 5, b |-> 3]

\* C5: a tool call naming a function the active agent does not have does not
\* raise: it appends one tool message with the call's id and the content
\* "Error: Tool <name> not found.", leaves the context delta, the next agent
\* and the running context alone, invokes nothing, and the dispatch moves on
\* to the next call of the turn.
C5_UnknownToolRecoverable ==
    [][NextCallNotFound =>
        LET tool_call == tool_calls[tc_i]
            name == tool_call.function.name
            added == partial_response'.messages[Len(partial_response'.messages)]
        IN  /\ pc' = "dispatch"
            /\ tc_i' = tc_i + 1
            /\ Len(partial_response'.messages) = Len(partial_response.messages) + 1
            /\ SubSeq(partial_response'.messages, 1, Len(partial_response.messages))
                  = partial_response.messages
            /\ added.role = "tool"
            /\ added.tool_call_id = tool_call.id
            /\ added.content = "Error: Tool " \o name \o " not found."
            /\ name = "missing_tool"
                  => added.content = "Error: Tool missing_tool not found."
            /\ partial_response'.context_variables = partial_response.context_variables
            /\ partial_response'.agent = partial_response.agent
            /\ invoked' = invoked
            /\ Ctx' = Ctx]_vars

\* C5 witness: the first call of a turn named missing_tool and got the error
\* message, and the second call of the same turn was then invoked.
C5_Witness ==
    /\ pc = "dispatch"
    /\ Len(partial_response.messages) = 2
    /\ partial_response.messages[1].content = "Error: Tool missing_tool not found."
    /\ Len(InvokedThisTurn) = 1
    /\ InvokedThisTurn[1].id = partial_response.messages[2].tool_call_id
    /\ CallNum(InvokedThisTurn[1].id)
          > CallNum(partial_response.messages[1].tool_call_id)

\* the content of the last transfer notice among the messages, "" if none
RECURSIVE LastNotice(_)
LastNotice(msgs) ==
    IF msgs = <<>> THEN ""
    ELSE IF msgs[Len(msgs)].role = "system" THEN msgs[Len(msgs)].content
    ELSE LastNotice(SubSeq(msgs, 1, Len(msgs) - 1))

\* C6: in run, when handle_tool_calls has returned a next agent that differs
\* from the active agent, the history gets that turn's tool messages followed
\* directly by the system message "Conversation transferred to <name>" and
\* that agent becomes active; in every other turn only the tool messages are
\* appended and the active agent stays. So the active agent, and with it the
\* agent of the Response, is the one named by the last notice, or the agent
\* the run was called with when there is no notice.
C6_TransferNotice ==
    /\ [][(mode = "run" /\ MergeStep) =>
            LET next == partial_response.agent
            IN  IF next # NoAgent /\ next # active_agent
                THEN /\ Hist' = Hist \o partial_response.messages
                                \o <<[role |-> "system",
                                      content |-> "Conversation transferred to "
                                                    \o next]>>
                     /\ active_agent' = next
                ELSE /\ Hist' = Hist \o partial_response.messages
                     /\ active_agent' = active_agent]_vars
    /\ [][(mode = "run" /\ ~MergeStep) =>
            \A i \in (Len(Hist) + 1)..Len(Hist') : Hist'[i].role # "system"]_vars
    /\ [](mode = "run" /\ pc # "call" =>
            IF LastNotice(Appended) = ""
            THEN active_agent = agent
            ELSE LastNotice(Appended)
                    = "Conversation transferred to " \o active_agent)
    /\ [](mode = "run" /\ pc = "done" => response[1].agent = active_agent)

\* C6 witness: agent A, one seed user message, max_turns = 3; the tool
\* returned Agent B, and the Response has agent B and the transfer notice
\* directly after the tool message.
C6_Witness ==
    /\ mode = "run"
    /\ agent = "A"
    /\ Len(messages0) = 1
    /\ max_turns = 3
    /\ pc = "done"
    /\ response[1].agent = "B"
    /\ Len(response[1].messages) >= 3
    /\ response[1].messages[2].role = "tool"
    /\ response[1].messages[2].content = JsonAssistant("B")
    /\ response[1].messages[3] =
          [role |-> "system", content |-> "Conversation transferred to B"]

\* C7: the history only grows at its end: every step keeps the entries it
\* had, in place; it starts with the seed messages, init_len is their number,
\* and the Response's messages are exactly the entries after the first
\* init_len, none of them a seed (user) message.
C7_HistoryAppendOnly ==
    /\ [][/\ Len(Hist') >= Len(Hist)
          /\ SubSeq(Hist', 1, Len(Hist)) = Hist]_vars
    /\ [](pc # "call" =>
            /\ init_len = Len(messages0)
            /\ Len(Hist) >= init_len
            /\ SubSeq(Hist, 1, init_len) = messages0)
    /\ [](pc = "done" =>
            /\ Len(response[1].messages) = Len(Hist) - Len(messages0)
            /\ \A i \in 1..Len(response[1].messages) :
                  /\ response[1].messages[i] = Hist[Len(messages0) + i]
                  /\ response[1].messages[i].role # "user"
            /\ mode = "run_and_stream"
                  => events[Len(events)].response = response[1])

\* C7 witness: run_and_stream, called with a seed message, has yielded a
\* Response of at least three messages.
C7_Witness ==
    /\ mode = "run_and_stream"
    /\ pc = "done"
    /\ Len(messages0) >= 1
    /\ Len(response[1].messages) >= 3

\* C8: the caller's messages list and context mapping stay as they were before
\* the call, in every state of run and run_and_stream, also after a tool wrote
\* to the injected mapping, after a context delta was merged and after a tool
\* raised.
C8_CallerObjectsUntouched ==
    /\ dicts["caller"] = context0
    /\ lists["caller"] = messages0

\* C8 witness: a tool raised after an earlier tool had written to the injected
\* mapping: the running context and the history differ from what the caller
\* passed.
C8_Witness ==
    /\ pc = "raised"
    /\ \E i \in 1..Len(invoked) : invoked[i].name = "peek" /\ invoked[i].injected
    /\ "p" \in DOMAIN Ctx
    /\ Ctx # context0
    /\ Hist # messages0

\* C9 as claimed: run_and_stream yields its final Response only after a
\* message without tool calls, with execute_tools disabled, or after max_turns
\* completion requests, as run does.
C9_AsClaimed ==
    (mode = "run_and_stream" /\ pc = "done") =>
        \/ requests = max_turns
        \/ ~execute_tools
        \/ (requests > 0 /\ MessageToolCalls(message) = <<>>)

\* the same statement about run
C9_RunStopsAtItsConditions ==
    (mode = "run" /\ pc = "done") =>
        \/ requests = max_turns
        \/ ~execute_tools
        \/ (requests > 0 /\ MessageToolCalls(message) = <<>>)

\* what kind of event a yielded value is
Kind(e) ==
    IF "delim" \in DOMAIN e THEN e.delim
    ELSE IF "response" \in DOMAIN e THEN "response"
    ELSE "delta"

\* the index of the last {delim: start} among the events, 0 if none
RECURSIVE LastStart(_)
LastStart(evs) ==
    IF evs = <<>> THEN 0
    ELSE IF Kind(evs[Len(evs)]) = "start" THEN Len(evs)
    ELSE LastStart(SubSeq(evs, 1, Len(evs) - 1))

\* a {delim: start} was yielded and its {delim: end} not yet
RECURSIVE BracketOpen(_)
BracketOpen(evs) ==
    IF evs = <<>> THEN FALSE
    ELSE IF Kind(evs[Len(evs)]) = "start" THEN TRUE
    ELSE IF Kind(evs[Len(evs)]) = "delta"
         THEN BracketOpen(SubSeq(evs, 1, Len(evs) - 1))
    ELSE FALSE

\* the ids of the tool calls opened by the delta events of evs, in order
RECURSIVE DeltaCallIds(_)
DeltaCallIds(evs) ==
    IF evs = <<>> THEN <<>>
    ELSE (IF /\ Kind(Head(evs)) = "delta"
             /\ Head(evs).tool_calls # <<>>
             /\ Head(evs).tool_calls[1].id # "None"
          THEN <<Head(evs).tool_calls[1].id>> ELSE <<>>)
         \o DeltaCallIds(Tail(evs))

\* C10: the events of run_and_stream are well bracketed. Events are only
\* added at the end and keep their kind, so it is enough to look at each one
\* when it is the last. A {delim: start}
\* opens every turn (it is the first event or follows a {delim: end}); deltas
\* and the {delim: end} come only inside an open bracket; while a bracket is
\* open no tool is dispatched and nothing is appended to the history; when
\* the end has been yielded, the deltas between the start and it are the ones
\* of the message that turn appends next (one with its content, two per tool
\* call of that message, in order); a {response} event is only ever the last
\* event, follows a {delim: end} or nothing, and is there, once, when the
\* loop has ended. A bracket stays open for good only when the completion is
\* not a stream of chunks (the one of LocalModelClient) and reading it raised.
C10_EventsWellBracketed ==
    /\ [][/\ Len(events') >= Len(events)
          /\ SubSeq(events', 1, Len(events) - 1)
                = SubSeq(events, 1, Len(events) - 1)
          /\ events # <<>> =>
                /\ Kind(events'[Len(events)]) = Kind(events[Len(events)])
                /\ Kind(events[Len(events)]) = "response" => events' = events]_vars
    /\ [](events # <<>> =>
            LET i == Len(events)
                k == Kind(events[i])
                before == IF i = 1 THEN "none" ELSE Kind(events[i - 1])
            IN  /\ k = "start" => before \in {"none", "end"}
                /\ k = "delta" => before \in {"start", "delta"}
                /\ k = "end" => before \in {"start", "delta"}
                /\ k = "response" =>
                      /\ before \in {"none", "end"}
                      /\ pc = "done")
    /\ [](BracketOpen(events) <=>
            \/ pc = "stream"
            \/ (pc = "raised" /\ mode = "run_and_stream"
                  /\ client = "LocalModelClient"))
    /\ [](client # "LocalModelClient" => (BracketOpen(events) <=> pc = "stream"))
    /\ [][BracketOpen(events) =>
            /\ invoked' = invoked
            /\ Len(partial_response'.messages) <= Len(partial_response.messages)
            /\ Ctx' = Ctx
            /\ Hist' = Hist
            /\ \/ Len(events') = Len(events)
               \/ /\ Len(events') = Len(events) + 1
                  /\ Kind(events'[Len(events')]) \in {"delta", "end"}]_vars
    /\ [](pc = "end" =>
            LET block == SubSeq(events, LastStart(events) + 1, Len(events) - 1)
            IN  /\ Kind(events[Len(events)]) = "end"
                /\ Len(block) = 1 + 2 * Len(message.tool_calls)
                /\ block[1].content = message.content
                /\ DeltaCallIds(block) =
                      [j \in 1..Len(message.tool_calls) |->
                          message.tool_calls[j].id]
                /\ \A j \in 1..Len(message.tool_calls) :
                      /\ block[2 * j].tool_calls[1].function.name
                            = message.tool_calls[j].function.name
                      /\ block[2 * j + 1].tool_calls[1].function.arguments
                            = message.tool_calls[j].function.arguments)
    /\ [][pc = "end" =>
            /\ Hist' = Append(Hist, message)
            /\ events' = events
            /\ invoked' = invoked]_vars
    /\ [](mode = "run_and_stream" /\ pc = "done" =>
            /\ events # <<>>
            /\ Kind(events[Len(events)]) = "response")
    /\ [](mode = "run" => events = <<>>)

\* C10 witness: run_and_stream has ended after two turns, the first with a
\* tool call: start, three deltas, end, start, one delta, end, response.
C10_Witness ==
    /\ mode = "run_and_stream"
    /\ pc = "done"
    /\ Len(events) = 9
    /\ Kind(events[1]) = "start"
    /\ Kind(events[3]) = "delta"
    /\ events[3].tool_calls # <<>>
    /\ events[4].tool_calls[1].function.arguments = "{}"
    /\ Kind(events[5]) = "end"
    /\ Kind(events[6]) = "start"
    /\ Kind(events[8]) = "end"
    /\ Kind(events[9]) = "response"
    /\ Len(invoked) = 1

\* the next tool call of the turn names a function of the active agent, and
\* its payload does not parse, or the function raises, or what it returns
\* cannot be cast to a string
NextCallFatal ==
    /\ pc = "dispatch"
    /\ tc_i <= Len(tool_calls)
    /\ ~NextCallNotFound
    /\ LET name == tool_calls[tc_i].function.name
           loaded == JsonLoads(tool_calls[tc_i].function.arguments)
           out == Invoke(name, loaded.args, CTX_VARS_NAME \in CoVarnames(name), Ctx)
       IN  \/ loaded.raises
           \/ out.raises
           \/ out.raw.kind = "unprintable"

\* C11: a malformed argument payload, an exception of the tool and a return
\* value that cannot be normalised are fatal: the step that meets one leaves
\* handle_tool_calls and run / run_and_stream by the exception, adds no tool
\* message, nothing to the history and no event; after it nothing happens any
\* more, so no later tool call of the turn is invoked, and no Response is
\* returned or yielded.
C11_FatalErrorsPropagate ==
    /\ [][NextCallFatal =>
            /\ pc' = "raised"
            /\ partial_response' = partial_response
            /\ Hist' = Hist
            /\ events' = events
            /\ response' = response]_vars
    /\ [][pc # "raised"]_vars
    /\ [](pc = "raised" =>
            /\ response = <<>>
            /\ \A i \in 1..Len(events) : Kind(events[i]) # "response"
            /\ \A i \in 1..Len(invoked) :
                  invoked[i].req = requests =>
                            CallNum(invoked[i].id) <= CallNum(tool_calls[tc_i].id))

\* C11 witness: the first of two calls of a turn returned a value that cannot
\* be cast to a string; the run raised and the second call, to a function the
\* agent has, was never invoked.
C11_Witness ==
    /\ pc = "raised"
    /\ Len(tool_calls) = 2
    /\ tc_i = 1
    /\ tool_calls[1].function.name = "boom"
    /\ tool_calls[1].function.arguments = "{\"kind\": \"object\"}"
    /\ tool_calls[2].function.name = "peek"
    /\ Len(invoked) = 1
    /\ ~invoked[1].raised
    /\ response = <<>>

\* C12 as claimed: with execute_tools false, a call that has returned made
\* exactly one completion request, whatever max_turns is.
C12_AsClaimed ==
    (~execute_tools /\ pc = "done") => requests = 1

\* C12: with execute_tools false, run and run_and_stream make at most one
\* completion request and, for max_turns >= 1, return after exactly that one,
\* also when its message carries tool calls: no tool is invoked, nothing but
\* the assistant message is appended, the active agent stays the agent of
\* the call and the context stays equal to the caller's. With max_turns = 0
\* they return without a request; the only raises are that of range() in run
\* and, after the one request, that of run_and_stream reading the completion
\* of LocalModelClient, which is not a stream of chunks.
C12_NoToolsWhenDisabled ==
    ~execute_tools =>
        /\ requests <= 1
        /\ pc = "raised" =>
              \/ (mode = "run" /\ max_turns = FloatInf /\ requests = 0)
              \/ (mode = "run_and_stream" /\ client = "LocalModelClient"
                    /\ requests = 1 /\ events = <<[delim |-> "start"]>>)
        /\ invoked = <<>>
        /\ pc # "dispatch"
        /\ pc # "call" =>
              /\ active_agent = agent
              /\ Ctx = context0
              /\ Len(Appended) = (IF pc \in {"return", "done"} /\ requests = 1
                                  THEN 1 ELSE 0)
              /\ \A i \in 1..Len(Appended) : Appended[i].role = "assistant"
        /\ requests = 1 => pc \in {"stream", "end", "return", "done", "raised"}
        /\ pc = "done" =>
              /\ max_turns > 0 => requests = 1
              /\ response[1].agent = agent
              /\ response[1].context_variables = context0
              /\ Len(response[1].messages) = requests

\* C12 witness: with execute_tools false a run has returned the one message
\* of the backend, which carries two tool calls.
C12_Witness ==
    /\ ~execute_tools
    /\ mode = "run"
    /\ pc = "done"
    /\ requests = 1
    /\ max_turns > 1
    /\ Len(response[1].messages) = 1
    /\ Len(MessageToolCalls(response[1].messages[1])) = 2

\* the position of run in its loop, growing with every step: the iteration,
\* then the place within it
Rank ==
    turn * (MaxCalls + 5)
      + (CASE pc = "call" -> 0
           [] pc = "dispatch" -> tc_i
           [] pc = "loop" -> MaxCalls + 2
           [] pc = "return" -> MaxCalls + 3
           [] OTHER -> MaxCalls + 4)

\* C13: for a finite max_turns, run always ends: every step moves it on in a
\* bounded order of positions, it raises only while a tool call is being
\* dispatched, and short of having returned or raised it can always take its
\* next step. What it returns when the turns are used up is the whole of what
\* was appended, the running context and the active agent, the transfer
\* notice of the last turn included.
C13_ExhaustionReturns ==
    /\ [][(mode = "run" /\ max_turns # FloatInf) => Rank' > Rank]_vars
    /\ [](mode = "run" /\ max_turns # FloatInf =>
            /\ Rank <= (max_turns + 1) * (MaxCalls + 5)
            /\ turn <= max_turns
            /\ pc = "raised" => tc_i <= Len(tool_calls)
            /\ pc \notin {"done", "raised"} => ENABLED Next
            /\ pc = "done" =>
                  /\ response[1].messages = Appended
                  /\ response[1].context_variables = Ctx
                  /\ response[1].agent = active_agent
                  /\ (Appended # <<>> /\ Appended[Len(Appended)].role = "system")
                        => Appended[Len(Appended)].content =
                              "Conversation transferred to " \o response[1].agent)

\* C13 witness: the last of max_turns = 2 turns called escalate; the Response
\* holds its tool message, the merged delta, the notice and agent C, for which
\* no completion was requested.
C13_Witness ==
    /\ mode = "run"
    /\ pc = "done"
    /\ max_turns = 2
    /\ requests = 2
    /\ response[1].agent = "C"
    /\ DictGet(response[1].context_variables, "a", 0) = 5
    /\ LET msgs == response[1].messages
       IN  /\ Len(msgs) >= 4
           /\ msgs[Len(msgs)] =
                [role |-> "system", content |-> "Conversation transferred to C"]
           /\ msgs[Len(msgs) - 1].role = "tool"
           /\ \A i \in 1..Len(msgs) :
                 msgs[i].role = "assistant" => msgs[i].sender # "C"

\* C14 as claimed: run, called with the unbounded max_turns, does not raise
\* unless a tool call does.
C14_AsClaimed ==
    (mode = "run" /\ max_turns = FloatInf /\ pc = "raised")
        => (tool_calls # <<>> /\ requests > 0)

\* C15 as claimed: run_and_stream records a handoff as run does, so whenever
\* its active agent is no longer the agent of the call, the last transfer
\* notice of the history names the active agent.
C15_AsClaimed ==
    (mode = "run_and_stream" /\ pc # "call") =>
        IF LastNotice(Appended) = ""
        THEN active_agent = agent
        ELSE LastNotice(Appended) = "Conversation transferred to " \o active_agent

\* C16 as claimed: from the request of a turn until its dispatch has returned,
\* the assistant message of the turn carries as sender the agent that is
\* active in that turn.
C16_AsClaimed ==
    (requests > 0 /\ pc \in {"stream", "end", "dispatch", "return"}) =>
        message.sender = active_agent

\* C17: every tool call is resolved against the functions of the agent active
\* in its turn: a name that agent has is invoked (or its arguments fail to
\* load), a name it lacks gets the "not found" message and is not invoked,
\* whichever agent the call started with.
C17_DispatchAgainstActiveAgent ==
    [][(pc = "dispatch" /\ tc_i <= Len(tool_calls)) =>
        LET tool_call == tool_calls[tc_i]
            name == tool_call.function.name
            has == \E i \in 1..Len(Functions(active_agent)) :
                      Functions(active_agent)[i] = name
        IN  IF has
            THEN \/ pc' = "raised" /\ invoked' = invoked
                 \/ /\ Len(invoked') = Len(invoked) + 1
                    /\ invoked'[Len(invoked')].name = name
                    /\ invoked'[Len(invoked')].id = tool_call.id
            ELSE /\ invoked' = invoked
                 /\ pc' = "dispatch"
                 /\ partial_response'.messages =
                       Append(partial_response.messages,
                              [role |-> "tool", tool_call_id |-> tool_call.id,
                               tool_name |-> name,
                               content |-> "Error: Tool " \o name \o " not found."])]_vars

\* C17 witness: the run started with A and handed off to B by transfer_to_b;
\* in the next turn update_vars, which only A has, got the error message and
\* was not invoked.
C17_Witness ==
    /\ agent = "A"
    /\ active_agent = "B"
    /\ requests = 2
    /\ pc = "dispatch"
    /\ tc_i = 2
    /\ Len(invoked) = 1
    /\ invoked[1].name = "transfer_to_b"
    /\ partial_response.messages[1].content = "Error: Tool update_vars not found."

\* C18: handle_tool_calls builds one tool message per dispatched call, in the
\* order of the calls, each with the id and the name of its call; after the
\* turn the history ends with the assistant message, these tool messages in
\* that order, and then at most one transfer notice.
C18_OneToolMessagePerCall ==
    /\ pc = "dispatch" =>
          /\ Len(partial_response.messages) = tc_i - 1
          /\ \A i \in 1..(tc_i - 1) :
                /\ partial_response.messages[i].role = "tool"
                /\ partial_response.messages[i].tool_call_id = tool_calls[i].id
                /\ partial_response.messages[i].tool_name
                      = tool_calls[i].function.name
          /\ \A i \in 1..(tc_i - 2) :
                CallNum(partial_response.messages[i].tool_call_id)
                   < CallNum(partial_response.messages[i + 1].tool_call_id)
    /\ (pc = "loop" /\ requests > 0) =>
          LET n == Len(tool_calls)
              k == IF Hist[Len(Hist)].role = "system" THEN 1 ELSE 0
              base == Len(Hist) - k - n
          IN  /\ n > 0
              /\ base > init_len
              /\ Hist[base] = message
              /\ message.tool_calls = tool_calls
              /\ \A i \in 1..n :
                    /\ Hist[base + i].role = "tool"
                    /\ Hist[base + i].tool_call_id = tool_calls[i].id
                    /\ Hist[base + i].tool_name = tool_calls[i].function.name

\* C18 witness: a turn of run called missing_tool and then transfer_to_b; the
\* history ends with the assistant message, the error message, the tool
\* message of transfer_to_b and the notice.
C18_Witness ==
    /\ mode = "run"
    /\ pc = "loop"
    /\ requests = 1
    /\ Len(tool_calls) = 2
    /\ tool_calls[1].function.name = "missing_tool"
    /\ tool_calls[2].function.name = "transfer_to_b"
    /\ Len(Appended) = 4
    /\ Appended[1].role = "assistant"
    /\ Appended[2].content = "Error: Tool missing_tool not found."
    /\ Appended[3].tool_name = "transfer_to_b"
    /\ Appended[4].role = "system"

\* C19 as claimed: a function is invoked with the context mapping injected
\* exactly when context_variables is one of its parameters.
C19_AsClaimed ==
    \A i \in 1..Len(invoked) :
        invoked[i].injected <=> (CTX_VARS_NAME \in Params(invoked[i].name))

\* a mapping without the key that peek writes into the injected mapping
WithoutWritten(d) == [k \in DOMAIN d \ {"p"} |-> d[k]]

\* C20: the deltas returned through Result objects reach the running context
\* only when handle_tool_calls has returned. During the dispatch the running
\* context, and so the mapping every injected tool of the turn receives, is
\* the context of the turn's start but for what a tool wrote into the mapping
\* itself; the instructions and the tools of the next turn see every key the
\* turn returned, with the value of the last call that returned it.
C20_DeltasAtTurnBoundary ==
    /\ pc = "dispatch" => WithoutWritten(Ctx) = WithoutWritten(instructions_ctx)
    /\ \A i \in 1..Len(invoked) :
          (invoked[i].req = requests /\ invoked[i].injected) =>
              /\ WithoutWritten(invoked[i].seen) = WithoutWritten(instructions_ctx)
              /\ (invoked[i].name = "peek" /\ pc = "dispatch") =>
                    Ctx["p"] = DictGet(instructions_ctx, "a", 0)
    /\ requests >= 2 =>
          LET log == SelectSeq(invoked, LAMBDA e : e.req = requests - 1)
          IN  \A k \in ReturnedKeys(log) :
                 /\ k \in DOMAIN instructions_ctx
                 /\ instructions_ctx[k] = log[LastReturning(log, k)].delta[k]

\* C20 witness: on the context {a:1}, update_vars returned {a:2,b:3} and peek,
\* called after it in the same turn, still received a = 1; the context after
\* the turn is {a:2,b:3,p:1}.
C20_Witness ==
    /\ pc = "loop"
    /\ context0 = [a |-> 1]
    /\ Len(invoked) = 2
    /\ invoked[1].name = "update_vars"
    /\ invoked[1].delta = [a |-> 2, b |-> 3]
    /\ invoked[2].name = "peek"
    /\ invoked[2].req = invoked[1].req
    /\ invoked[2].seen = [a |-> 1]
    /\ Ctx = [a |-> 2, b |-> 3, p |-> 1]

====
